---- MODULE Spec2Model ----
(***************************************************************************)
(* worker-agent (src/src/index.ts): an HTTP-triggered agent loop.  POST    *)
(* /run starts runAgent, which alternates calls to a chat-completions      *)
(* endpoint (chat) with the execution of the tool calls the model asked    *)
(* for (executeToolCall -> createWorker, getWorker, invokeWorker,          *)
(* listWorkers), until the model answers without tool calls or 20          *)
(* iterations have been made.                                              *)
(*                                                                         *)
(* Every request r has its own copy of the handler's locals.  The model    *)
(* endpoint and the Cloudflare API are the environment: their replies are  *)
(* chosen nondeterministically when an awaited fetch completes.            *)
(***************************************************************************)
EXTENDS Naturals, Sequences, FiniteSets, TLC

\* index.ts:396
maxIterations == 20

\* Largest number of tool calls the model puts in one assistant message.
MaxCalls == 2

\* The requests the Worker may be serving.
Reqs == {1, 2}

VARIABLES
    pc,          \* where request r's handler stands
    request,     \* the Request handed to fetch()
    messages,    \* runAgent's `messages`
    iterations,  \* runAgent's `iterations`
    message,     \* runAgent's `message`: the model's latest answer
    toolIndex,   \* position of the for..of loop in message.tool_calls
    inflight,    \* the awaited network operations of r that have not completed
    trace,       \* network calls made since the last model call was issued
    raised,      \* what the latest executeToolCall of this turn raised, if anything
    special,     \* environment: the call of this turn the platform answers freely
    deviated,    \* environment: the model has left its default turn once
    response,    \* the Response the handler returned
    platform,    \* environment: the scripts the account holds, in the platform's order
    submitted,   \* per name, the code of the latest upload, when that upload returned
    last         \* the latest call of a client operation made on its own

\* the state of the client operations called on their own
client == <<platform, submitted, last>>

\* the state of the requests
handlers == <<pc, request, messages, iterations, message, toolIndex, inflight, trace,
              raised, special, deviated, response>>

vars == <<pc, request, messages, iterations, message, toolIndex, inflight, trace,
          raised, special, deviated, response, platform, submitted, last>>

----------------------------------------------------------------------------
(* Optional values: <<>> is null / undefined, <<v>> is v.                  *)

None == <<>>
Some(v) == <<v>>
IsSome(o) == o # <<>>
Get(o) == o[1]

(* Strings.                                                                *)

StartsWith(s, p) == Len(s) >= Len(p) /\ SubSeq(s, 1, Len(p)) = p

RECURSIVE Join(_, _)
\* Array.prototype.join
Join(lines, sep) ==
    IF Len(lines) = 0 THEN ""
    ELSE IF Len(lines) = 1 THEN lines[1]
    ELSE lines[1] \o sep \o Join(Tail(lines), sep)

----------------------------------------------------------------------------
(* Messages (index.ts:16-30).                                              *)

ToolCall(id, name, arguments) ==
    [id |-> id, name |-> name, arguments |-> arguments]

Message(role, content, tool_calls, tool_call_id) ==
    [role |-> role, content |-> content, tool_calls |-> tool_calls,
     tool_call_id |-> tool_call_id]

\* index.ts:377-389
systemPrompt == "You are an AI agent that can create, update, invoke, and manage Cloudflare Workers."

\* index.ts:32-138: the names of the catalog sent to the model
TOOLS == <<"create_worker", "update_worker", "invoke_worker", "list_workers",
           "get_worker">>

----------------------------------------------------------------------------
(* JSON.parse on the argument strings the model sends (index.ts:328).      *)
(* Parsed arguments are a record of the fields the tools read; ok = FALSE  *)
(* is the SyntaxError JSON.parse throws.                                   *)

ArgsEmpty == "{}"
ArgsName == "{\"name\":\"demo-fn\"}"
ArgsCode == "{\"name\":\"demo-fn\",\"code\":\"export default {}\"}"
ArgsInvoke == "{\"name\":\"demo-fn\",\"method\":\"GET\",\"path\":\"/\"}"
ArgsNull == "null"
ArgsTruncated == "{\"name\":"

Parsed(isNull, name, code, method, path) ==
    [ok |-> TRUE, isNull |-> isNull, name |-> name, code |-> code,
     method |-> method, path |-> path, body |-> None]

JSONParse(s) ==
    CASE s = ArgsEmpty  -> Parsed(FALSE, "undefined", "undefined", "undefined", "undefined")
      [] s = ArgsName   -> Parsed(FALSE, "demo-fn", "undefined", "undefined", "undefined")
      [] s = ArgsCode   -> Parsed(FALSE, "demo-fn", "export default {}", "undefined", "undefined")
      [] s = ArgsInvoke -> Parsed(FALSE, "demo-fn", "undefined", "GET", "/")
      [] s = ArgsNull   -> Parsed(TRUE, "", "", "", "")
      [] OTHER          -> [ok |-> FALSE, isNull |-> FALSE, name |-> "", code |-> "",
                            method |-> "", path |-> "", body |-> None]

\* The SyntaxError's message
ParseErrorMessage == "Unexpected end of JSON input"
\* The TypeError of reading a property of null
NullErrorMessage == "Cannot read properties of null (reading 'name')"
\* fetch() itself rejecting
FetchErrorMessage == "fetch failed"

----------------------------------------------------------------------------
(* The Remote-Function client (index.ts:217-325).  Each operation is given *)
(* the replies `rep` of the platform to the fetches it awaits, and yields  *)
(* what it returned or threw and the network calls it made, in order.      *)

ApiBase == "https://api.cloudflare.com/client/v4/accounts/ACCOUNT/workers"

Call(op, url, body, out) == [op |-> op, url |-> url, body |-> body, out |-> out]

Returned(value, calls) == [threw |-> FALSE, value |-> value, calls |-> calls]
Threw(err, calls) == [threw |-> TRUE, value |-> err, calls |-> calls]

\* Response.ok
Ok(status) == status >= 200 /\ status <= 299

\* createWorker uploading the metadata part as the module's content
createWorkerUploadsMetadata(name, code, rep) ==
    LET metadata == "{\"main_module\":\"worker.js\",\"compatibility_date\":\"2024-01-01\"}"
        put(out) == Call("PUT", ApiBase \o "/scripts/" \o name, Some(metadata), out)
        enable(out) == Call("POST", ApiBase \o "/scripts/" \o name \o "/subdomain",
                            Some("{\"enabled\":true}"), out)
    IN  IF rep.put = "reject" THEN Threw(FetchErrorMessage, <<put("reject")>>)
        ELSE IF rep.put # "success"
        THEN Threw("Failed to create worker: " \o rep.errors, <<put("failure")>>)
        ELSE IF rep.enable = "reject"
        THEN Threw(FetchErrorMessage, <<put("success"), enable("reject")>>)
        ELSE Returned("Worker '" \o name
                        \o "' created successfully. It will be available at https://"
                        \o name \o ".<your-subdomain>.workers.dev",
                      <<put("success"), enable(rep.enable)>>)

\* index.ts:217-255
createWorker(name, code, rep) ==
    LET put(out) == Call("PUT", ApiBase \o "/scripts/" \o name, Some(code), out)
        enable(out) == Call("POST", ApiBase \o "/scripts/" \o name \o "/subdomain",
                            Some("{\"enabled\":true}"), out)
    IN  IF rep.put = "reject" THEN Threw(FetchErrorMessage, <<put("reject")>>)
        ELSE IF rep.put # "success"
        THEN Threw("Failed to create worker: " \o rep.errors, <<put("failure")>>)
        ELSE IF rep.enable = "reject"
        THEN Threw(FetchErrorMessage, <<put("success"), enable("reject")>>)
        ELSE Returned("Worker '" \o name
                        \o "' created successfully. It will be available at https://"
                        \o name \o ".<your-subdomain>.workers.dev",
                      <<put("success"), enable(rep.enable)>>)

\* index.ts:257-259
updateWorker(name, code, rep) == createWorker(name, code, rep)

\* index.ts:261-276
getWorker(name, rep) ==
    LET get(out) == Call("GET", ApiBase \o "/scripts/" \o name \o "/content", None, out)
    IN  IF rep.fetch = "reject" THEN Threw(FetchErrorMessage, <<get("reject")>>)
        ELSE IF ~Ok(rep.status)
        THEN Threw("Failed to get worker: " \o ToString(rep.status) \o " "
                     \o rep.statusText, <<get(ToString(rep.status))>>)
        ELSE Returned("Source code for '" \o name \o "':\n\n" \o rep.text,
                      <<get(ToString(rep.status))>>)

\* what the subdomain lookup reported (index.ts:285-286)
LookupOut(rep) ==
    IF rep.lookup = "reject" THEN "reject"
    ELSE IF IsSome(rep.subdomain) THEN "subdomain " \o Get(rep.subdomain)
    ELSE "no subdomain"

\* the subdomain in the worker's URL: String(undefined) when there is none
SubdomainText(subdomain) == IF IsSome(subdomain) THEN Get(subdomain) ELSE "undefined"

\* invokeWorker without the check of the subdomain
invokeWorkerUnchecked(name, method, path, body, rep) ==
    LET lookup == Call("GET", ApiBase \o "/subdomain", None, LookupOut(rep))
        workerUrl == "https://" \o name \o "." \o SubdomainText(rep.subdomain)
                       \o ".workers.dev" \o path
        req(out) == Call(method, workerUrl, None, out)
    IN  IF rep.lookup = "reject" THEN Threw(FetchErrorMessage, <<lookup>>)
        ELSE IF rep.req = "reject" THEN Threw(FetchErrorMessage, <<lookup, req("reject")>>)
        ELSE Returned("Status: " \o ToString(rep.status) \o "\nHeaders: " \o rep.headers
                        \o "\nBody: " \o rep.text,
                      <<lookup, req(ToString(rep.status))>>)

\* index.ts:278-302
invokeWorker(name, method, path, body, rep) ==
    LET lookup == Call("GET", ApiBase \o "/subdomain", None, LookupOut(rep))
        subdomain == rep.subdomain
        workerUrl == "https://" \o name \o "." \o SubdomainText(subdomain)
                       \o ".workers.dev" \o path
        sent == IF IsSome(body) /\ Get(body) # "" /\ method \in {"POST", "PUT", "PATCH"}
                THEN body ELSE None
        req(out) == Call(method, workerUrl, sent, out)
    IN  IF rep.lookup = "reject" THEN Threw(FetchErrorMessage, <<lookup>>)
        ELSE IF ~IsSome(subdomain) \/ Get(subdomain) = ""
        THEN Threw("Could not determine workers.dev subdomain", <<lookup>>)
        ELSE IF rep.req = "reject"
        THEN Threw(FetchErrorMessage, <<lookup, req("reject")>>)
        ELSE Returned("Status: " \o ToString(rep.status) \o "\nHeaders: " \o rep.headers
                        \o "\nBody: " \o rep.text,
                      <<lookup, req(ToString(rep.status))>>)

\* index.ts:324: one line of the listing
WorkerLine(w) == "- " \o w.id \o " (modified: " \o w.modified_on \o ")"

\* listWorkers joining the lines of the listing with commas
listWorkersOnOneLine(rep) ==
    LET list(out) == Call("GET", ApiBase \o "/scripts", None, out)
        workers == IF IsSome(rep.result) THEN Get(rep.result) ELSE <<>>
    IN  IF rep.fetch = "reject" THEN Threw(FetchErrorMessage, <<list("reject")>>)
        ELSE IF ~rep.success
        THEN Threw("Failed to list workers: " \o rep.errors, <<list("failure")>>)
        ELSE IF Len(workers) = 0 THEN Returned("No workers found.", <<list("success")>>)
        ELSE Returned("Workers:\n"
                        \o Join([i \in 1..Len(workers) |-> WorkerLine(workers[i])], ", "),
                      <<list("success")>>)

\* index.ts:304-325
listWorkers(rep) ==
    LET list(out) == Call("GET", ApiBase \o "/scripts", None, out)
        workers == IF IsSome(rep.result) THEN Get(rep.result) ELSE <<>>
    IN  IF rep.fetch = "reject" THEN Threw(FetchErrorMessage, <<list("reject")>>)
        ELSE IF ~rep.success
        THEN Threw("Failed to list workers: " \o rep.errors, <<list("failure")>>)
        ELSE IF Len(workers) = 0 THEN Returned("No workers found.", <<list("success")>>)
        ELSE Returned("Workers:\n"
                        \o Join([i \in 1..Len(workers) |-> WorkerLine(workers[i])], "\n"),
                      <<list("success")>>)

----------------------------------------------------------------------------
(* The Tool Dispatcher (index.ts:327-348).                                 *)

\* the default case throwing instead of returning
UnknownToolThrows(name) == Threw("Unknown tool: " \o name, <<>>)

\* index.ts:342-343
UnknownTool(name) == Returned("Unknown tool: " \o name, <<>>)

\* index.ts:331-344: the switch; reading args.name of a null `args` throws
Dispatch(name, args, rep) ==
    CASE name = "create_worker" ->
            IF args.isNull THEN Threw(NullErrorMessage, <<>>)
            ELSE createWorker(args.name, args.code, rep)
      [] name = "update_worker" ->
            IF args.isNull THEN Threw(NullErrorMessage, <<>>)
            ELSE updateWorker(args.name, args.code, rep)
      [] name = "get_worker" ->
            IF args.isNull THEN Threw(NullErrorMessage, <<>>)
            ELSE getWorker(args.name, rep)
      [] name = "invoke_worker" ->
            IF args.isNull THEN Threw(NullErrorMessage, <<>>)
            ELSE invokeWorker(args.name, args.method, args.path, args.body, rep)
      [] name = "list_workers" -> listWorkers(rep)
      [] OTHER -> UnknownTool(name)

\* the dispatcher without its try/catch
executeToolCallUncaught(toolCall, rep) ==
    LET args == JSONParse(toolCall.arguments)
    IN  IF ~args.ok THEN Threw(ParseErrorMessage, <<>>)
        ELSE Dispatch(toolCall.name, args, rep)

\* the dispatcher parsing the arguments inside its try block
executeToolCallParsesInTry(toolCall, rep) ==
    LET args == JSONParse(toolCall.arguments)
    IN  IF ~args.ok THEN Returned("Error: " \o ParseErrorMessage, <<>>)
        ELSE LET r == Dispatch(toolCall.name, args, rep)
             IN  IF r.threw THEN Returned("Error: " \o r.value, r.calls) ELSE r

\* index.ts:327-348: threw = TRUE is an error that leaves executeToolCall
executeToolCall(toolCall, rep) ==
    LET args == JSONParse(toolCall.arguments)
    IN  IF ~args.ok THEN Threw(ParseErrorMessage, <<>>)
        ELSE LET r == Dispatch(toolCall.name, args, rep)
             IN  IF r.threw THEN Returned("Error: " \o r.value, r.calls) ELSE r

\* The cases of the switch that reach an awaited fetch
Dispatched == {"create_worker", "update_worker", "get_worker", "invoke_worker",
               "list_workers"}

\* executeToolCall suspends on a fetch: the arguments parse and the case calls a client
Awaits(toolCall) ==
    LET args == JSONParse(toolCall.arguments)
    IN  /\ args.ok
        /\ toolCall.name \in Dispatched
        /\ (args.isNull => toolCall.name = "list_workers")

----------------------------------------------------------------------------
(* The environment: what the platform can answer.                          *)

ErrorsJson == "[{\"message\":\"Authentication error\"}]"
Worker1 == [id |-> "demo-fn", modified_on |-> "2024-01-01T00:00:00Z"]
Worker2 == [id |-> "other-fn", modified_on |-> "2024-02-02T00:00:00Z"]

PutReplies ==
    {[put |-> "reject", enable |-> "ok", errors |-> ""],
     [put |-> "failure", enable |-> "ok", errors |-> ErrorsJson]}
    \cup {[put |-> "success", enable |-> e, errors |-> ""] : e \in {"ok", "error", "reject"}}

GetReplies ==
    {[fetch |-> "reject", status |-> 0, statusText |-> "", text |-> ""],
     [fetch |-> "ok", status |-> 404, statusText |-> "Not Found", text |-> ""],
     [fetch |-> "ok", status |-> 200, statusText |-> "OK", text |-> "export default {}"]}

InvokeReplies ==
    {[lookup |-> "reject", subdomain |-> None, req |-> "ok", status |-> 0,
      headers |-> "", text |-> ""]}
    \cup {[lookup |-> "ok", subdomain |-> s, req |-> "ok", status |-> 0,
           headers |-> "", text |-> ""] : s \in {None, Some("")}}
    \cup {[lookup |-> "ok", subdomain |-> Some("acme"), req |-> "reject", status |-> 0,
           headers |-> "", text |-> ""],
          [lookup |-> "ok", subdomain |-> Some("acme"), req |-> "ok", status |-> 200,
           headers |-> "{}", text |-> "Hello World!"]}

ListReply(fetch, success, result, errors) ==
    [fetch |-> fetch, success |-> success, result |-> result, errors |-> errors]

\* an account without workers
DefaultReply == ListReply("ok", TRUE, Some(<<>>), "")

ListReplies ==
    {DefaultReply,
     ListReply("reject", FALSE, None, ""),
     ListReply("ok", FALSE, None, ErrorsJson),
     ListReply("ok", TRUE, None, ""),
     ListReply("ok", TRUE, Some(<<Worker1>>), ""),
     ListReply("ok", TRUE, Some(<<Worker1, Worker2>>), "")}

Replies(name) ==
    CASE name \in {"create_worker", "update_worker"} -> PutReplies
      [] name = "get_worker" -> GetReplies
      [] name = "invoke_worker" -> InvokeReplies
      [] OTHER -> ListReplies

(* The platform behind the replies, for the client operations called on    *)
(* their own: the account keeps the module a successful PUT uploads under  *)
(* the name in the PUT's URL, serves it back on the content URL of that    *)
(* name, and lists its scripts in the order they were first uploaded.      *)

Names == {"demo-fn", "other-fn"}
Codes == {"export default {}", "export default { fetch }"}
Timestamps == {"2024-01-01T00:00:00Z", "2024-02-02T00:00:00Z"}

Script(id, modified_on, code) == [id |-> id, modified_on |-> modified_on, code |-> code]

ScriptsUrl == ApiBase \o "/scripts/"

\* the script a URL under /scripts/ names
ScriptOf(url) ==
    LET rest == SubSeq(url, Len(ScriptsUrl) + 1, Len(url))
        n == Len(rest) - Len("/content")
    IN  IF n >= 1 /\ SubSeq(rest, n + 1, Len(rest)) = "/content"
        THEN SubSeq(rest, 1, n) ELSE rest

\* the positions of the account's scripts called `id`
Stored(scripts, id) == {i \in 1..Len(scripts) : scripts[i].id = id}

\* the account after a PUT of `call` that succeeded at time ts
Uploaded(scripts, call, ts) ==
    LET s == Script(ScriptOf(call.url), ts, Get(call.body))
    IN  IF Stored(scripts, s.id) = {} THEN Append(scripts, s)
        ELSE [i \in 1..Len(scripts) |-> IF scripts[i].id = s.id THEN s ELSE scripts[i]]

\* the account after the calls a client operation made
RECURSIVE Served(_, _, _)
Served(scripts, calls, ts) ==
    IF calls = <<>> THEN scripts
    ELSE Served(IF calls[1].op = "PUT" /\ calls[1].out = "success"
                THEN Uploaded(scripts, calls[1], ts) ELSE scripts,
                Tail(calls), ts)

\* the platform's answers to a GET of a content URL
ContentReplies(scripts, url) ==
    {[fetch |-> "reject", status |-> 0, statusText |-> "", text |-> ""]}
    \cup (IF Stored(scripts, ScriptOf(url)) = {}
          THEN {[fetch |-> "ok", status |-> 404, statusText |-> "Not Found", text |-> ""]}
          ELSE {[fetch |-> "ok", status |-> 200, statusText |-> "OK",
                 text |-> scripts[i].code] : i \in Stored(scripts, ScriptOf(url))})

\* the platform's answers to a GET of the list of scripts
ListingReplies(scripts) ==
    {ListReply("reject", FALSE, None, ""),
     ListReply("ok", FALSE, None, ErrorsJson),
     ListReply("ok", TRUE,
               Some([i \in 1..Len(scripts) |->
                       [id |-> scripts[i].id, modified_on |-> scripts[i].modified_on]]),
               "")}
    \cup (IF scripts = <<>> THEN {ListReply("ok", TRUE, None, "")} ELSE {})

(* What the model endpoint can answer.                                     *)

\* the turn the model repeats: list the workers
DefaultCall == [name |-> "list_workers", arguments |-> ArgsEmpty]

\* the calls the model makes when it leaves its default turn
SpecialCalls ==
    {[name |-> "create_worker", arguments |-> ArgsCode],
     [name |-> "update_worker", arguments |-> ArgsCode],
     [name |-> "get_worker", arguments |-> ArgsName],
     [name |-> "get_worker", arguments |-> ArgsNull],
     [name |-> "invoke_worker", arguments |-> ArgsInvoke],
     [name |-> "list_workers", arguments |-> ArgsEmpty],
     [name |-> "list_workers", arguments |-> ArgsTruncated],
     [name |-> "delete_worker", arguments |-> ArgsName],
     [name |-> "frobnicate", arguments |-> ArgsEmpty],
     [name |-> "frobnicate", arguments |-> ArgsTruncated]}

CallId(iteration, j) == "call_" \o ToString(iteration) \o "_" \o ToString(j)

\* the tool_calls of a turn of n calls whose p-th call is c, the others the default call
Turn(iteration, n, p, c) ==
    [j \in 1..n |->
        LET k == IF j = p THEN c ELSE DefaultCall
        IN  ToolCall(CallId(iteration, j), k.name, k.arguments)]

\* the content and tool_calls of the answers without tool calls
Finals ==
    {[content |-> None, tool_calls |-> None],
     [content |-> Some(""), tool_calls |-> Some(<<>>)],
     [content |-> Some("There are no functions."), tool_calls |-> None],
     [content |-> Some("There are no functions."), tool_calls |-> Some(<<>>)]}

----------------------------------------------------------------------------
(* The Request Shell (index.ts:422-471).                                   *)

Body(json, prompt, model) == [json |-> json, prompt |-> prompt, model |-> model]
Request(method, path, body) == [method |-> method, path |-> path, body |-> body]

NoBody == Body(FALSE, None, None)
NoRequest == Request("", "", NoBody)

Prompts == <<"list all functions", "create a worker called demo-fn">>
Models == <<None, Some("anthropic/claude-sonnet-4")>>

Requests(r) ==
    {Request("OPTIONS", "/run", NoBody), Request("GET", "/", NoBody),
     Request("GET", "/run", NoBody), Request("POST", "/", NoBody),
     Request("POST", "/run", NoBody),
     Request("POST", "/run", Body(TRUE, None, None)),
     Request("POST", "/run", Body(TRUE, Some(""), None)),
     Request("POST", "/run", Body(TRUE, None, Some("openai/gpt-4o"))),
     Request("POST", "/run", Body(TRUE, Some(Prompts[r]), Models[r]))}

Response(status, error, result, msgs, text) ==
    [status |-> status, error |-> error, result |-> result, messages |-> msgs,
     text |-> text]

NoResponse == Response(0, None, None, None, None)

\* index.ts:460-467
ErrorResponse(err) == Response(500, Some(err), None, None, None)
\* the result without the transcript
RunResponseBare(result, msgs) == Response(200, None, Some(result), None, None)

\* index.ts:457-459
RunResponse(result, msgs) == Response(200, None, Some(result), Some(msgs), None)
\* the missing prompt reported as a failure of the server
MissingPromptAsServerError ==
    Response(500, Some("Missing 'prompt' in request body"), None, None, None)

\* index.ts:449-452
MissingPrompt == Response(400, Some("Missing 'prompt' in request body"), None, None, None)

\* index.ts:446
ModelOf(body) ==
    IF IsSome(body.model) /\ Get(body.model) # "" THEN Get(body.model) ELSE "openai/gpt-4o"

\* the handler of r returns `resp`
Return(r, resp) ==
    /\ pc' = [pc EXCEPT ![r] = "done"]
    /\ response' = [response EXCEPT ![r] = resp]
    /\ inflight' = [inflight EXCEPT ![r] = {}]

\* index.ts:423-455: fetch() up to the call of runAgent, and runAgent up to its loop
Receive(r) ==
    /\ pc[r] = "idle"
    /\ \E req \in Requests(r) :
          /\ request' = [request EXCEPT ![r] = req]
          /\ IF req.method = "OPTIONS"
             THEN /\ Return(r, Response(200, None, None, None, None))
                  /\ UNCHANGED messages
             ELSE IF req.path = "/" /\ req.method = "GET"
             THEN /\ Return(r, Response(200, None, None, None, Some("<!DOCTYPE html>")))
                  /\ UNCHANGED messages
             ELSE IF req.path = "/run" /\ req.method = "POST"
             THEN IF ~req.body.json
                  THEN /\ Return(r, ErrorResponse(ParseErrorMessage))
                       /\ UNCHANGED messages
                  ELSE IF ~IsSome(req.body.prompt) \/ Get(req.body.prompt) = ""
                  THEN /\ Return(r, MissingPrompt)
                       /\ UNCHANGED messages
                  ELSE /\ messages' = [messages EXCEPT ![r] =
                              <<Message("system", Some(systemPrompt), None, None),
                                Message("user", req.body.prompt, None, None)>>]
                       /\ pc' = [pc EXCEPT ![r] = "loop"]
                       /\ UNCHANGED <<response, inflight>>
             ELSE /\ Return(r, Response(404, None, None, None, Some("Not found")))
                  /\ UNCHANGED messages
    /\ UNCHANGED <<iterations, message, toolIndex, trace, raised, special, deviated>>
    /\ UNCHANGED client

----------------------------------------------------------------------------
(* The Model Client (index.ts:350-374).                                    *)

ChatUrl == "https://openrouter.ai/api/v1/chat/completions"

NoMessage == Message("", None, None, None)

ChatReply(fetch, status, text, msg) ==
    [fetch |-> fetch, status |-> status, text |-> text, message |-> msg]

\* chat without the check of response.ok
chatUnchecked(model, rep) ==
    LET post(out) == Call("POST", ChatUrl, Some(model), out)
    IN  IF rep.fetch = "reject"
        THEN [threw |-> TRUE, error |-> FetchErrorMessage, message |-> NoMessage,
              calls |-> <<post("reject")>>]
        ELSE [threw |-> FALSE, error |-> "", message |-> rep.message,
              calls |-> <<post(ToString(rep.status))>>]

\* index.ts:350-374: threw = TRUE is the Error chat throws
chat(model, rep) ==
    LET post(out) == Call("POST", ChatUrl, Some(model), out)
    IN  IF rep.fetch = "reject"
        THEN [threw |-> TRUE, error |-> FetchErrorMessage, message |-> NoMessage,
              calls |-> <<post("reject")>>]
        ELSE IF ~Ok(rep.status)
        THEN [threw |-> TRUE,
              error |-> "OpenRouter API error: " \o ToString(rep.status) \o " " \o rep.text,
              message |-> NoMessage, calls |-> <<post(ToString(rep.status))>>]
        ELSE [threw |-> FALSE, error |-> "", message |-> rep.message,
              calls |-> <<post(ToString(rep.status))>>]

\* The answers of the endpoint at one iteration; `special` is the call of the turn
\* whose platform replies are free (0: none), `deviates` marks a turn other than
\* the default one.  The model leaves its default turn at most once in a run.
ModelReplies(iteration, hasDeviated) ==
    {[reply |-> ChatReply("reject", 0, "", NoMessage), special |-> 0, deviates |-> FALSE],
     [reply |-> ChatReply("ok", 429, "rate limited", NoMessage), special |-> 0,
      deviates |-> FALSE]}
    \cup {[reply |-> ChatReply("ok", 200, "",
                Message("assistant", f.content, f.tool_calls, None)),
           special |-> 0, deviates |-> FALSE] : f \in Finals}
    \cup {[reply |-> ChatReply("ok", 200, "",
                Message("assistant", None, Some(Turn(iteration, 1, 0, DefaultCall)), None)),
           special |-> 0, deviates |-> FALSE]}
    \cup (IF hasDeviated THEN {}
          ELSE {[reply |-> ChatReply("ok", 200, "",
                      Message("assistant", None, Some(Turn(iteration, n, 0, DefaultCall)),
                              None)),
                 special |-> 0, deviates |-> TRUE] : n \in 2..MaxCalls}
               \cup UNION {{[reply |-> ChatReply("ok", 200, "",
                                  Message("assistant", None,
                                          Some(Turn(iteration, n, p, c)), None)),
                             special |-> p, deviates |-> TRUE] :
                              p \in 1..n, c \in SpecialCalls} : n \in 1..MaxCalls})

----------------------------------------------------------------------------
(* The Agent Loop (index.ts:376-420).                                      *)

\* the loop condition stopping one iteration early
LoopContinuesShort(n) == n + 1 < maxIterations

\* the loop condition, off by one
LoopContinuesInclusive(n) == n <= maxIterations

\* index.ts:399
LoopContinues(n) == n < maxIterations

\* index.ts:405, negated
HasToolCalls(m) == IsSome(m.tool_calls) /\ Len(Get(m.tool_calls)) # 0

\* the content turned into a string, null included
FinalResultAsString(m) == IF IsSome(m.content) THEN Get(m.content) ELSE "null"

\* index.ts:406: message.content || ""
FinalResult(m) == IF IsSome(m.content) /\ Get(m.content) # "" THEN Get(m.content) ELSE ""

\* the result of a tool pushed as a message of the user
ToolMessageAsUser(toolCall, result) ==
    Message("user", Some(result), None, Some(toolCall.id))

\* the tool message labelled with the tool's name instead of the call's id
ToolMessageNamed(toolCall, result) ==
    Message("tool", Some(result), None, Some(toolCall.name))

\* index.ts:411-415
ToolMessage(toolCall, result) == Message("tool", Some(result), None, Some(toolCall.id))

Tagged(calls, j) ==
    [i \in 1..Len(calls) |->
        [by |-> j, op |-> calls[i].op, url |-> calls[i].url, body |-> calls[i].body,
         out |-> calls[i].out]]

\* the loop counting its iterations in a variable of the module, which every
\* request increments
IterateSharedCounter(r) ==
    /\ pc[r] = "loop"
    /\ IF LoopContinues(iterations[r])
       THEN /\ iterations' = [q \in Reqs |-> iterations[q] + 1]
            /\ pc' = [pc EXCEPT ![r] = "chat"]
            /\ inflight' = [inflight EXCEPT ![r] = @ \cup {"chat"}]
            /\ trace' = [trace EXCEPT ![r] = <<>>]
            /\ raised' = [raised EXCEPT ![r] = "none"]
            /\ toolIndex' = [toolIndex EXCEPT ![r] = 0]
            /\ special' = [special EXCEPT ![r] = 0]
            /\ UNCHANGED response
       ELSE /\ Return(r, RunResponse("Max iterations reached", messages[r]))
            /\ UNCHANGED <<iterations, trace, raised, toolIndex, special>>
    /\ UNCHANGED <<request, messages, message, deviated, client>>

\* index.ts:399-402: the head of the while loop, up to the fetch chat awaits;
\* index.ts:419 when the loop is left
Iterate(r) ==
    /\ pc[r] = "loop"
    /\ IF LoopContinues(iterations[r])
       THEN /\ iterations' = [iterations EXCEPT ![r] = @ + 1]
            /\ pc' = [pc EXCEPT ![r] = "chat"]
            /\ inflight' = [inflight EXCEPT ![r] = @ \cup {"chat"}]
            /\ trace' = [trace EXCEPT ![r] = <<>>]
            /\ raised' = [raised EXCEPT ![r] = "none"]
            /\ toolIndex' = [toolIndex EXCEPT ![r] = 0]
            /\ special' = [special EXCEPT ![r] = 0]
            /\ UNCHANGED response
       ELSE /\ Return(r, RunResponse("Max iterations reached", messages[r]))
            /\ UNCHANGED <<iterations, trace, raised, toolIndex, special>>
    /\ UNCHANGED <<request, messages, message, deviated, client>>

\* index.ts:402-407: the model call completes
ChatReturn(r) ==
    /\ pc[r] = "chat"
    /\ \E a \in ModelReplies(iterations[r], deviated[r]) :
          LET out == chat(ModelOf(request[r].body), a.reply)
              msgs == Append(messages[r], out.message)
          IN  /\ trace' = [trace EXCEPT ![r] = @ \o Tagged(out.calls, 0)]
              /\ special' = [special EXCEPT ![r] = a.special]
              /\ deviated' = [deviated EXCEPT ![r] = @ \/ a.deviates]
              /\ IF out.threw
                 THEN /\ Return(r, ErrorResponse(out.error))
                      /\ UNCHANGED <<messages, message, toolIndex>>
                 ELSE /\ messages' = [messages EXCEPT ![r] = msgs]
                      /\ message' = [message EXCEPT ![r] = out.message]
                      /\ IF ~HasToolCalls(out.message)
                         THEN /\ Return(r, RunResponse(FinalResult(out.message), msgs))
                              /\ UNCHANGED toolIndex
                         ELSE /\ pc' = [pc EXCEPT ![r] = "tools"]
                              /\ inflight' = [inflight EXCEPT ![r] = @ \ {"chat"}]
                              /\ toolIndex' = [toolIndex EXCEPT ![r] = 1]
                              /\ UNCHANGED response
    /\ UNCHANGED <<request, iterations, raised, client>>

\* the tool call the for..of loop stands at
CurrentCall(r) == Get(message[r].tool_calls)[toolIndex[r]]

\* what executeToolCall(toolCall) raises under the replies `rep`: "parse" by
\* JSON.parse (index.ts:328), "operation" inside the try block (index.ts:330-344)
Raised(toolCall, rep) ==
    LET args == JSONParse(toolCall.arguments)
    IN  IF ~args.ok THEN "parse"
        ELSE IF Dispatch(toolCall.name, args, rep).threw THEN "operation"
        ELSE "none"

\* the for..of loop left after its first tool call
AfterCallBreaks(j, n) == "loop"

\* the for..of loop leaving out the last tool call
AfterCallSkipsLast(j, n) == IF j + 1 < n THEN "tools" ELSE "loop"

\* the for..of loop not handing control back to the while loop after its last call
AfterCallStalls(j, n) == IF j < n THEN "tools" ELSE "stalled"

\* index.ts:409: the for..of loop after its j-th of n tool calls
AfterCall(j, n) == IF j < n THEN "tools" ELSE "loop"

\* index.ts:410-416 and 460-467: executeToolCall ends, the platform having replied `rep`
FinishCall(r, toolCall, rep) ==
    LET out == executeToolCall(toolCall, rep)
    IN  /\ trace' = [trace EXCEPT ![r] = @ \o Tagged(out.calls, toolIndex[r])]
        /\ raised' = [raised EXCEPT ![r] = Raised(toolCall, rep)]
        /\ IF out.threw
           THEN /\ Return(r, ErrorResponse(out.value))
                /\ UNCHANGED <<messages, toolIndex>>
           ELSE /\ messages' = [messages EXCEPT ![r] =
                                  Append(@, ToolMessage(toolCall, out.value))]
                /\ toolIndex' = [toolIndex EXCEPT ![r] = @ + 1]
                /\ inflight' = [inflight EXCEPT ![r] = @ \ {toolCall.id}]
                /\ pc' = [pc EXCEPT ![r] =
                            AfterCall(toolIndex[r], Len(Get(message[r].tool_calls)))]
                /\ UNCHANGED response
        /\ UNCHANGED <<request, iterations, message, special, deviated, client>>

\* index.ts:409-410, 328-344: the next tool call is handed to executeToolCall, which
\* runs up to its first awaited fetch, or to its end when it reaches none
ToolBegin(r) ==
    /\ pc[r] = "tools"
    /\ LET toolCall == CurrentCall(r)
       IN  IF Awaits(toolCall)
           THEN /\ pc' = [pc EXCEPT ![r] = "executing"]
                /\ inflight' = [inflight EXCEPT ![r] = @ \cup {toolCall.id}]
                /\ UNCHANGED <<request, messages, iterations, message, toolIndex, trace,
                               raised, special, deviated, response, client>>
           ELSE FinishCall(r, toolCall, DefaultReply)

\* index.ts:333-347, 410-416: the fetches of the tool call complete
ToolEnd(r) ==
    /\ pc[r] = "executing"
    /\ LET toolCall == CurrentCall(r)
       IN  \E rep \in (IF special[r] = toolIndex[r] THEN Replies(toolCall.name)
                       ELSE {DefaultReply}) :
              FinishCall(r, toolCall, rep)

----------------------------------------------------------------------------

\* a call of a client operation: its arguments, the status and the listing the
\* platform answered it with, and what it returned or threw
ClientCall(op, name, status, listing, out) ==
    [op |-> op, name |-> name, status |-> status, listing |-> listing, out |-> out]

NoListing == ListReply("", FALSE, None, "")
NoContent == [fetch |-> "reject", status |-> 0, statusText |-> "", text |-> ""]
NoCall == ClientCall("", "", 0, NoListing, Returned("", <<>>))

Init ==
    /\ pc = [r \in Reqs |-> "idle"]
    /\ request = [r \in Reqs |-> NoRequest]
    /\ messages = [r \in Reqs |-> <<>>]
    /\ iterations = [r \in Reqs |-> 0]
    /\ message = [r \in Reqs |-> NoMessage]
    /\ toolIndex = [r \in Reqs |-> 0]
    /\ inflight = [r \in Reqs |-> {}]
    /\ trace = [r \in Reqs |-> <<>>]
    /\ raised = [r \in Reqs |-> "none"]
    /\ special = [r \in Reqs |-> 0]
    /\ deviated = [r \in Reqs |-> FALSE]
    /\ response = [r \in Reqs |-> NoResponse]
    /\ platform = <<>>
    /\ submitted = [n \in Names |-> None]
    /\ last = NoCall

Step(r) == Receive(r) \/ Iterate(r) \/ ChatReturn(r) \/ ToolBegin(r) \/ ToolEnd(r)

\* one request is served
Next == Step(1)

Spec == Init /\ [][Next]_vars

\* Every call returns: a fetch that is awaited completes (ChatReturn, ToolEnd), and
\* the runtime runs the handler whenever it is not waiting (Receive, Iterate,
\* ToolBegin).  At most one of these is enabled at a time for a request.
FairSpec == Spec /\ WF_vars(Next)

----------------------------------------------------------------------------
(* Concurrent requests: the handlers of all requests run interleaved, each *)
(* step being the code between two awaits.  The model endpoint keeps to    *)
(* its default turn, its final answers and its failures in every run.      *)

ConcInit ==
    /\ pc = [r \in Reqs |-> "idle"]
    /\ request = [r \in Reqs |-> NoRequest]
    /\ messages = [r \in Reqs |-> <<>>]
    /\ iterations = [r \in Reqs |-> 0]
    /\ message = [r \in Reqs |-> NoMessage]
    /\ toolIndex = [r \in Reqs |-> 0]
    /\ inflight = [r \in Reqs |-> {}]
    /\ trace = [r \in Reqs |-> <<>>]
    /\ raised = [r \in Reqs |-> "none"]
    /\ special = [r \in Reqs |-> 0]
    /\ deviated = [r \in Reqs |-> TRUE]
    /\ response = [r \in Reqs |-> NoResponse]
    /\ platform = <<>>
    /\ submitted = [n \in Names |-> None]
    /\ last = NoCall

ConcNext == \E r \in Reqs : Step(r)

ConcSpec == ConcInit /\ [][ConcNext]_vars

----------------------------------------------------------------------------
(* The client operations called on their own against the platform.         *)

\* create_worker or update_worker (index.ts:332-335) is called with a name and a code
ClientUpload ==
    \E op \in {"create_worker", "update_worker"}, name \in Names, code \in Codes,
       rep \in PutReplies, ts \in Timestamps :
        LET out == IF op = "create_worker" THEN createWorker(name, code, rep)
                   ELSE updateWorker(name, code, rep)
        IN  /\ platform' = Served(platform, out.calls, ts)
            /\ submitted' = [submitted EXCEPT ![name] =
                                IF out.threw THEN None ELSE Some(code)]
            /\ last' = ClientCall(op, name, 0, NoListing, out)
            /\ UNCHANGED handlers

\* get_worker (index.ts:336-337) is called with a name
ClientGet ==
    \E name \in Names :
        LET url == getWorker(name, NoContent).calls[1].url
        IN  \E rep \in ContentReplies(platform, url) :
                /\ last' = ClientCall("get_worker", name, rep.status, NoListing,
                                      getWorker(name, rep))
                /\ UNCHANGED <<platform, submitted, handlers>>

\* list_workers (index.ts:340-341) is called
ClientList ==
    \E rep \in ListingReplies(platform) :
        /\ last' = ClientCall("list_workers", "", 0, rep, listWorkers(rep))
        /\ UNCHANGED <<platform, submitted, handlers>>

ClientNext == ClientUpload \/ ClientGet \/ ClientList

ClientSpec == Init /\ [][ClientNext]_vars

----------------------------------------------------------------------------
(* The conversation of a run, as the properties below read it.             *)

\* runAgent was called for r
Started(r) == Len(messages[r]) >= 2

AssistantIdx(r) == {i \in 1..Len(messages[r]) : messages[r][i].role = "assistant"}

\* the tool calls requested by the message at position i
CallsAt(r, i) ==
    IF IsSome(messages[r][i].tool_calls) THEN Get(messages[r][i].tool_calls) ELSE <<>>

RECURSIVE ToolRun(_, _)
\* the number of tool messages that directly follow position i
ToolRun(r, i) ==
    IF i < Len(messages[r]) /\ messages[r][i + 1].role = "tool"
    THEN 1 + ToolRun(r, i + 1) ELSE 0

RECURSIVE TrailingTools(_, _)
\* the number of tool messages that end the first n messages
TrailingTools(r, n) ==
    IF n >= 1 /\ messages[r][n].role = "tool" THEN 1 + TrailingTools(r, n - 1) ELSE 0

\* the position of the latest assistant message, when there is one
LatestAssistant(r) == Len(messages[r]) - TrailingTools(r, Len(messages[r]))

\* every argument string of the calls parses
AllParse(calls) == \A j \in 1..Len(calls) : JSONParse(calls[j].arguments).ok

\* all maxIterations model calls of r returned an assistant message with tool calls
AllIterationsCalledTools(r) ==
    /\ Cardinality(AssistantIdx(r)) = maxIterations
    /\ \A i \in AssistantIdx(r) : Len(CallsAt(r, i)) >= 1

Exhausted(r) == response[r] = RunResponse("Max iterations reached", messages[r])

----------------------------------------------------------------------------
(* C1 as stated: the iteration counter never exceeds 20, and a run whose   *)
(* 20 iterations all returned an assistant message with at least one tool  *)
(* call ends with the result "Max iterations reached" and the              *)
(* conversation.  Refuted: a tool call of the 20th message whose arguments *)
(* do not parse ends the run with a 500 response instead.                  *)
C1_MaxIterationsAsStated ==
    \A r \in Reqs :
        /\ iterations[r] <= maxIterations
        /\ (pc[r] = "done" /\ AllIterationsCalledTools(r)) => Exhausted(r)

(* C1, amended: the iteration counter never exceeds 20, and a run whose 20 *)
(* iterations all returned an assistant message with at least one tool     *)
(* call, the argument strings of the 20th message's calls all parsing,     *)
(* ends with the result "Max iterations reached" and the conversation.     *)
C1_MaxIterations ==
    \A r \in Reqs :
        /\ iterations[r] <= maxIterations
        /\ (/\ pc[r] = "done"
            /\ AllIterationsCalledTools(r)
            /\ AllParse(Get(message[r].tool_calls))) => Exhausted(r)

C1_Witness ==
    \E r \in Reqs :
        pc[r] = "done" /\ iterations[r] = maxIterations /\ AllIterationsCalledTools(r)
        /\ Exhausted(r)

----------------------------------------------------------------------------
LastMessage(r) == messages[r][Len(messages[r])]

\* The latest executeToolCall of r raised an error and the loop went on: the
\* run was not ended by it, the call got its one tool message, which starts with
\* "Error: ", and the loop stands at the next tool call or at the next model call.
ErrorContained(r) ==
    /\ response[r].status # 500
    /\ toolIndex[r] >= 2
    /\ LET calls == Get(message[r].tool_calls)
           call == calls[toolIndex[r] - 1]
       IN  /\ LastMessage(r).role = "tool"
           /\ LastMessage(r).tool_call_id = Some(call.id)
           /\ StartsWith(Get(LastMessage(r).content), "Error: ")
           /\ ToolRun(r, LatestAssistant(r)) = toolIndex[r] - 1
           /\ IF toolIndex[r] <= Len(calls) THEN pc[r] \in {"tools", "executing"}
              ELSE pc[r] = "loop" \/ (pc[r] = "done" /\ Exhausted(r))

(* C2 as stated: whatever error the execution of a tool call handed to     *)
(* executeToolCall raises, the run is not ended by it, the conversation    *)
(* gains one tool message for the call starting with "Error: ", and the    *)
(* loop continues.  Refuted: the error JSON.parse raises on the call's     *)
(* argument string is outside the try block and ends the run.              *)
C2_ToolErrorContainedAsStated ==
    \A r \in Reqs : raised[r] # "none" => ErrorContained(r)

(* C2, amended: an error raised by the operation a tool call is dispatched *)
(* to (its arguments having parsed) never ends the run: the conversation   *)
(* gains exactly one tool message for that call, whose content starts with *)
(* "Error: ", and the loop continues with the next tool call or the next   *)
(* model call.                                                             *)
C2_ToolErrorContained ==
    \A r \in Reqs : raised[r] = "operation" => ErrorContained(r)

C2_Witness ==
    \E r \in Reqs : raised[r] = "operation" /\ pc[r] = "tools" /\ ErrorContained(r)

----------------------------------------------------------------------------
\* k tool messages follow the assistant message at i and answer, in order, the
\* first k of its tool calls
AnswersPrefix(r, i, k) ==
    /\ k <= Len(CallsAt(r, i))
    /\ \A j \in 1..k : messages[r][i + j].tool_call_id = Some(CallsAt(r, i)[j].id)

\* the loop is past the tool calls of the assistant message at i
TurnOver(r, i) == i # LatestAssistant(r) \/ pc[r] \in {"loop", "chat", "done"}

(* C3 as stated: every assistant message that requests N >= 1 tool calls   *)
(* is directly followed, before the next model call, by exactly N tool     *)
(* messages, the i-th carrying the id of the i-th call.  Refuted: a call   *)
(* whose arguments do not parse ends the run, and neither it nor the calls *)
(* after it get a tool message.                                            *)
C3_OneToolMessagePerCallAsStated ==
    \A r \in Reqs : \A i \in AssistantIdx(r) :
        LET k == ToolRun(r, i)
        IN  Len(CallsAt(r, i)) >= 1 =>
                /\ AnswersPrefix(r, i, k)
                /\ TurnOver(r, i) => k = Len(CallsAt(r, i))

(* C3, amended: every assistant message that requests N >= 1 tool calls    *)
(* whose argument strings all parse is directly followed, before the next  *)
(* model call, by exactly N tool messages, the i-th carrying the id of the *)
(* i-th call; in every case the tool messages that follow an assistant     *)
(* message answer its first calls in the order requested.                  *)
C3_OneToolMessagePerCall ==
    \A r \in Reqs : \A i \in AssistantIdx(r) :
        LET k == ToolRun(r, i)
        IN  Len(CallsAt(r, i)) >= 1 =>
                /\ AnswersPrefix(r, i, k)
                /\ (TurnOver(r, i) /\ AllParse(CallsAt(r, i))) => k = Len(CallsAt(r, i))

C3_Witness ==
    \E r \in Reqs : \E i \in AssistantIdx(r) :
        /\ Len(CallsAt(r, i)) = MaxCalls
        /\ i # LatestAssistant(r)
        /\ ToolRun(r, i) = MaxCalls
        /\ messages[r][i + MaxCalls].tool_call_id = Some(CallsAt(r, i)[MaxCalls].id)

----------------------------------------------------------------------------
\* the ids of the tool calls an assistant message at position i requests
IdsAt(r, i) ==
    IF messages[r][i].role = "assistant"
    THEN {CallsAt(r, i)[j].id : j \in 1..Len(CallsAt(r, i))} ELSE {}

RECURSIVE AnswersEarlier(_, _, _)
\* from position i on, every tool message carries an id of `ids` or of an
\* assistant message between i and itself
AnswersEarlier(r, i, ids) ==
    IF i > Len(messages[r]) THEN TRUE
    ELSE IF messages[r][i].role = "tool"
    THEN /\ IsSome(messages[r][i].tool_call_id)
         /\ Get(messages[r][i].tool_call_id) \in ids
         /\ AnswersEarlier(r, i + 1, ids)
    ELSE AnswersEarlier(r, i + 1, ids \cup IdsAt(r, i))

(* C4: every tool message of the conversation carries the id of a tool     *)
(* call requested by an assistant message earlier in the conversation.     *)
C4_ToolMessagesAnswerEarlierCalls ==
    \A r \in Reqs : AnswersEarlier(r, 1, {})

C4_Witness ==
    \E r \in Reqs : \E i \in 1..Len(messages[r]) :
        /\ messages[r][i].role = "tool"
        /\ messages[r][i].tool_call_id = Some(CallId(2, 1))

----------------------------------------------------------------------------
\* the message requests no tool call: tool_calls is absent or the empty list
NoToolCalls(m) == ~IsSome(m.tool_calls) \/ Get(m.tool_calls) = <<>>

\* the content as it is, the empty string for null
ContentOrEmpty(m) == IF IsSome(m.content) THEN Get(m.content) ELSE ""

(* C5: an assistant message without tool calls ends the run where it is:   *)
(* it is the last message of the conversation, nothing is in flight, and   *)
(* the run has returned its content (the empty string for null) with the   *)
(* conversation; when it is the first answer of the model, one iteration   *)
(* was made and the conversation is [system, user, assistant].             *)
C5_FinalAnswerEndsRun ==
    \A r \in Reqs : \A i \in AssistantIdx(r) :
        NoToolCalls(messages[r][i]) =>
            /\ i = Len(messages[r])
            /\ pc[r] = "done"
            /\ inflight[r] = {}
            /\ response[r] = Response(200, None, Some(ContentOrEmpty(messages[r][i])),
                                      Some(messages[r]), None)
            /\ Cardinality(AssistantIdx(r)) = iterations[r]
            /\ (i = 3 => iterations[r] = 1 /\ Len(messages[r]) = 3)

C5_Witness ==
    \E r \in Reqs :
        /\ pc[r] = "done"
        /\ Len(messages[r]) = 3
        /\ messages[r][3].role = "assistant"
        /\ messages[r][3].content = None
        /\ response[r].result = Some("")
        /\ iterations[r] = 1

----------------------------------------------------------------------------
(* C6: the network operations of a run are strictly sequential: at most    *)
(* one is in flight; while a tool call is executed the tool messages of    *)
(* the calls requested before it, and only those, follow the assistant     *)
(* message, in request order; and while a model call is in flight every    *)
(* tool call of the latest assistant message has its tool message.         *)
C6_StrictlySequential ==
    \A r \in Reqs :
        LET la == LatestAssistant(r)
            k == TrailingTools(r, Len(messages[r]))
        IN  /\ Cardinality(inflight[r]) <= 1
            /\ pc[r] \in {"idle", "loop", "tools", "done"} => inflight[r] = {}
            /\ pc[r] = "executing" =>
                  /\ inflight[r] = {CurrentCall(r).id}
                  /\ messages[r][la] = message[r]
                  /\ k = toolIndex[r] - 1
                  /\ AnswersPrefix(r, la, k)
            /\ pc[r] = "chat" =>
                  /\ inflight[r] = {"chat"}
                  /\ k = Len(CallsAt(r, la))
                  /\ AnswersPrefix(r, la, k)

C6_Witness ==
    \E r \in Reqs :
        /\ pc[r] = "executing"
        /\ toolIndex[r] = 2
        /\ LastMessage(r).tool_call_id = Some(Get(message[r].tool_calls)[1].id)

----------------------------------------------------------------------------
\* the model call of this iteration was answered with a status that is not 2xx
ModelRefused(r) ==
    /\ Len(trace[r]) >= 1
    /\ trace[r][1].url = ChatUrl
    /\ trace[r][1].out \notin {"reject", "200"}

(* C7: a model call answered with a non-2xx status ends the run at that    *)
(* point: the response is 500 with a body holding only the error message,  *)
(* nothing is in flight, and no call follows the refused model call.       *)
C7_ModelErrorEndsRun ==
    \A r \in Reqs :
        ModelRefused(r) =>
            /\ pc[r] = "done"
            /\ response[r] = Response(500,
                    Some("OpenRouter API error: " \o trace[r][1].out \o " rate limited"),
                    None, None, None)
            /\ Len(trace[r]) = 1
            /\ inflight[r] = {}
            /\ Cardinality(AssistantIdx(r)) = iterations[r] - 1

C7_Witness ==
    \E r \in Reqs : ModelRefused(r) /\ iterations[r] = 2 /\ response[r].status = 500

----------------------------------------------------------------------------
(* C8 as stated: every way a started run ends yields a response that       *)
(* contains the messages of the run.  Refuted: a run that an uncaught      *)
(* error ends is answered with { error } alone.                            *)
C8_TranscriptAlwaysReturnedAsStated ==
    \A r \in Reqs :
        (pc[r] = "done" /\ Started(r)) => response[r].messages = Some(messages[r])

(* C8, amended: a started run that returns a result, on the final answer   *)
(* as on the max-iteration fallback, is answered 200 with the result and   *)
(* all the messages of the run; a started run that an uncaught error ends  *)
(* is answered 500 with the error message and no transcript.               *)
C8_TranscriptReturnedWithResult ==
    \A r \in Reqs :
        (pc[r] = "done" /\ Started(r)) =>
            \/ /\ response[r].status = 200
               /\ IsSome(response[r].result)
               /\ response[r].messages = Some(messages[r])
               /\ \/ NoToolCalls(LastMessage(r))
                  \/ response[r].result = Some("Max iterations reached")
            \/ /\ response[r].status = 500
               /\ IsSome(response[r].error)
               /\ response[r].messages = None
               /\ response[r].result = None

C8_Witness ==
    \E r \in Reqs :
        /\ pc[r] = "done"
        /\ response[r].result = Some("Max iterations reached")
        /\ response[r].messages = Some(messages[r])
        /\ LastMessage(r).role = "tool"

----------------------------------------------------------------------------
\* the calls of the latest assistant message that executeToolCall is through with,
\* having returned or raised
Handled(r) ==
    IF toolIndex[r] = 0 THEN {}
    ELSE IF raised[r] = "parse" THEN 1..toolIndex[r]
    ELSE 1..(toolIndex[r] - 1)

\* the j-th tool call of the latest assistant message
CallOf(r, j) == Get(message[r].tool_calls)[j]

\* the tool message that answers the j-th call of the latest assistant message
AnswerOf(r, j) == messages[r][LatestAssistant(r) + j]

\* The j-th call was answered as an unknown tool: executeToolCall did not fail, no
\* call to the platform was made for it, and its tool message is the text
\* "Unknown tool: {name}".
UnknownAnswered(r, j) ==
    /\ ~(pc[r] = "done" /\ response[r].status = 500 /\ toolIndex[r] = j)
    /\ LatestAssistant(r) + j <= Len(messages[r])
    /\ AnswerOf(r, j) = Message("tool", Some("Unknown tool: " \o CallOf(r, j).name), None,
                                Some(CallOf(r, j).id))
    /\ \A i \in 1..Len(trace[r]) : trace[r][i].by # j

(* C9 as stated: every tool call whose name the dispatcher does not         *)
(* recognise is answered with the text "Unknown tool: {name}" as its tool  *)
(* message, without failing and without a call to the platform.  Refuted:  *)
(* executeToolCall parses the arguments before it looks at the name, and   *)
(* fails when they do not parse.                                           *)
C9_UnknownToolAnsweredAsStated ==
    \A r \in Reqs : \A j \in Handled(r) :
        CallOf(r, j).name \notin Dispatched => UnknownAnswered(r, j)

(* C9, amended: every tool call whose name the dispatcher does not         *)
(* recognise and whose argument string parses is answered with the text    *)
(* "Unknown tool: {name}" as its tool message, executeToolCall neither     *)
(* failing nor calling the platform, and the loop continues.               *)
C9_UnknownToolAnswered ==
    \A r \in Reqs : \A j \in Handled(r) :
        (CallOf(r, j).name \notin Dispatched /\ JSONParse(CallOf(r, j).arguments).ok)
            => UnknownAnswered(r, j)

C9_Witness ==
    \E r \in Reqs :
        /\ pc[r] = "tools"
        /\ toolIndex[r] = 2
        /\ CallOf(r, 1).name = "frobnicate"
        /\ UnknownAnswered(r, 1)

----------------------------------------------------------------------------
IsLookup(e) == e.url = ApiBase \o "/subdomain"

\* a request to a worker's own URL
IsWorkerRequest(e) == e.by >= 1 /\ ~StartsWith(e.url, "https://api.cloudflare.com/")

\* the lookup was answered with a subdomain that is not empty
ReportsSubdomain(e) == StartsWith(e.out, "subdomain ") /\ Len(e.out) > Len("subdomain ")

\* the URL invoke requests for the call `c`, the lookup having reported `out`
WorkerUrlFor(c, out) ==
    "https://" \o JSONParse(c.arguments).name \o "."
        \o SubSeq(out, Len("subdomain ") + 1, Len(out)) \o ".workers.dev"
        \o JSONParse(c.arguments).path

(* C10: invoke_worker first looks the subdomain up; a request to a         *)
(* worker's URL is only made right after a lookup of the same call that    *)
(* reported a non-empty subdomain, and goes to                             *)
(* https://{name}.{subdomain}.workers.dev{path}; when the lookup reports   *)
(* no subdomain the call makes no further request and fails with "Could    *)
(* not determine workers.dev subdomain".                                   *)
C10_LookupBeforeInvoke ==
    \A r \in Reqs :
        LET t == trace[r]
        IN  /\ \A i \in 1..Len(t) :
                  /\ IsWorkerRequest(t[i]) =>
                        /\ i >= 2
                        /\ IsLookup(t[i - 1])
                        /\ t[i - 1].by = t[i].by
                        /\ ReportsSubdomain(t[i - 1])
                        /\ t[i].url = WorkerUrlFor(CallOf(r, t[i].by), t[i - 1].out)
                  /\ (IsLookup(t[i]) /\ t[i].out # "reject" /\ ~ReportsSubdomain(t[i])) =>
                        /\ i = Len(t) \/ t[i + 1].by # t[i].by
                        /\ AnswerOf(r, t[i].by).content
                              = Some("Error: Could not determine workers.dev subdomain")
            /\ \A j \in Handled(r) :
                  (/\ CallOf(r, j).name = "invoke_worker"
                   /\ JSONParse(CallOf(r, j).arguments).ok
                   /\ ~JSONParse(CallOf(r, j).arguments).isNull) =>
                        \E i \in 1..Len(t) :
                            /\ t[i].by = j
                            /\ IsLookup(t[i])
                            /\ i = 1 \/ t[i - 1].by # j

C10_Witness ==
    \E r \in Reqs : \E i \in 1..Len(trace[r]) :
        /\ IsLookup(trace[r][i])
        /\ trace[r][i].out = "no subdomain"
        /\ i = Len(trace[r])
        /\ LastMessage(r).content = Some("Error: Could not determine workers.dev subdomain")

----------------------------------------------------------------------------
\* the latest client call read the source of a name whose latest upload returned
ReadsBack == last.op = "get_worker" /\ IsSome(submitted[last.name])

(* C11 as stated: a create_or_update(name, code) that returned, followed   *)
(* with no upload of that name in between by read_source(name), has        *)
(* read_source return the code that was submitted.  Refuted: getWorker     *)
(* returns the code behind the line "Source code for '{name}':" and an     *)
(* empty line.                                                             *)
C11_RoundTripAsStated ==
    ReadsBack =>
        /\ Ok(last.status) => ~last.out.threw
        /\ ~last.out.threw => last.out.value = Get(submitted[last.name])

(* C11, amended: a create_or_update(name, code) that returned, followed    *)
(* with no upload of that name in between by a read_source(name) that the  *)
(* platform answers, has read_source return the text                       *)
(* "Source code for '{name}':", an empty line, and then exactly the code   *)
(* that was submitted.                                                     *)
C11_RoundTrip ==
    ReadsBack =>
        /\ Ok(last.status) => ~last.out.threw
        /\ ~last.out.threw =>
              last.out.value = "Source code for '" \o last.name \o "':\n\n"
                                 \o Get(submitted[last.name])

C11_Witness ==
    /\ ReadsBack
    /\ ~last.out.threw
    /\ Len(platform) = 2
    /\ submitted[last.name] = Some("export default { fetch }")
    /\ last.out.value = "Source code for 'other-fn':\n\nexport default { fetch }"

----------------------------------------------------------------------------
\* the confirmation createWorker returns for the call `c`
Confirmation(c) ==
    "Worker '" \o JSONParse(c.arguments).name
        \o "' created successfully. It will be available at https://"
        \o JSONParse(c.arguments).name \o ".<your-subdomain>.workers.dev"

(* C12: when the upload of a create_worker or update_worker call succeeds, *)
(* no failure of the call that enables the subdomain is surfaced, be it an *)
(* error status or the call itself failing: the tool message of the call   *)
(* is the confirmation naming the worker and not an "Error: " message.     *)
(* Refuted: the fetch that enables the subdomain is awaited inside the try *)
(* block, so its rejection becomes the tool message "Error: fetch failed". *)
C12_EnableFailureNotSurfaced ==
    \A r \in Reqs : \A i \in 1..Len(trace[r]) :
        (trace[r][i].op = "PUT" /\ trace[r][i].out = "success") =>
            LET j == trace[r][i].by
            IN  /\ ~StartsWith(Get(AnswerOf(r, j).content), "Error: ")
                /\ AnswerOf(r, j).content = Some(Confirmation(CallOf(r, j)))

----------------------------------------------------------------------------
\* the six operations the catalog is said to offer
SixOperations ==
    {"create_worker", "update_worker", "get_worker", "list_workers", "delete_worker",
     "invoke_worker"}

\* the j-th call of the latest assistant message was dispatched to a client
\* operation: its answer is not the "Unknown tool" text and it called the platform
DispatchedToClient(r, j) ==
    /\ AnswerOf(r, j).content # Some("Unknown tool: " \o CallOf(r, j).name)
    /\ \E i \in 1..Len(trace[r]) : trace[r][i].by = j

(* C13: the catalog sent to the model offers exactly six operations        *)
(* (create, update, read-source, list, delete, invoke), and a tool call    *)
(* that names one of them, with arguments that parse to an object, is      *)
(* dispatched to its client operation and not answered as an unknown tool; *)
(* a delete call issues a DELETE of the named script.  Refuted: TOOLS has  *)
(* five entries and the switch has no case for a delete, which is answered *)
(* "Unknown tool: delete_worker" without a call to the platform.           *)
C13_SixOperationsDispatched ==
    \A r \in Reqs :
        /\ Started(r) => {TOOLS[i] : i \in 1..Len(TOOLS)} = SixOperations
        /\ \A j \in Handled(r) :
              (/\ CallOf(r, j).name \in SixOperations
               /\ JSONParse(CallOf(r, j).arguments).ok
               /\ ~JSONParse(CallOf(r, j).arguments).isNull) =>
                    /\ DispatchedToClient(r, j)
                    /\ CallOf(r, j).name = "delete_worker" =>
                          \E i \in 1..Len(trace[r]) :
                              trace[r][i].by = j /\ trace[r][i].op = "DELETE"

----------------------------------------------------------------------------
\* r is a POST /run whose body is JSON without a prompt (absent or empty)
LacksPrompt(r) ==
    /\ request[r].method = "POST"
    /\ request[r].path = "/run"
    /\ request[r].body.json
    /\ ~IsSome(request[r].body.prompt) \/ Get(request[r].body.prompt) = ""

(* C14: a POST /run whose JSON body has no prompt is answered with status  *)
(* 400 and the error "Missing 'prompt' in request body", and no run is     *)
(* started for it: no conversation, no iteration, no model call and no     *)
(* tool call.                                                              *)
C14_MissingPromptRejected ==
    \A r \in Reqs :
        LacksPrompt(r) =>
            /\ pc[r] = "done"
            /\ response[r] = Response(400, Some("Missing 'prompt' in request body"),
                                      None, None, None)
            /\ messages[r] = <<>>
            /\ iterations[r] = 0
            /\ trace[r] = <<>>
            /\ inflight[r] = {}
            /\ toolIndex[r] = 0

C14_Witness ==
    \E r \in Reqs :
        /\ LacksPrompt(r)
        /\ request[r].body.model = Some("openai/gpt-4o")
        /\ response[r].status = 400

----------------------------------------------------------------------------
\* everything the handler of r holds
Run(r) ==
    <<pc[r], request[r], messages[r], iterations[r], message[r], toolIndex[r],
      inflight[r], trace[r], raised[r], response[r]>>

RECURSIVE OwnFrom(_, _, _)
\* from position i on, k assistant messages coming before it, the conversation of
\* r holds the answers the model gave to r, iteration by iteration, and the tool
\* messages of their calls
OwnFrom(r, i, k) ==
    IF i > Len(messages[r]) THEN k
    ELSE IF messages[r][i].role = "assistant"
    THEN IF \A j \in 1..Len(CallsAt(r, i)) : CallsAt(r, i)[j].id = CallId(k + 1, j)
         THEN OwnFrom(r, i + 1, k + 1) ELSE maxIterations + 2
    ELSE IF /\ messages[r][i].role = "tool"
            /\ \E j \in 1..MaxCalls : messages[r][i].tool_call_id = Some(CallId(k, j))
    THEN OwnFrom(r, i + 1, k) ELSE maxIterations + 2

\* the conversation and the counter of r are those of r's own run
OwnRun(r) ==
    IF ~Started(r) THEN messages[r] = <<>> /\ iterations[r] = 0
    ELSE /\ messages[r][1] = Message("system", Some(systemPrompt), None, None)
         /\ messages[r][2] = Message("user", Some(Prompts[r]), None, None)
         /\ request[r].body.prompt = Some(Prompts[r])
         /\ LET k == OwnFrom(r, 3, 0)
            IN  CASE pc[r] = "chat" -> iterations[r] = k + 1
                  [] pc[r] = "done" -> iterations[r] \in {k, k + 1}
                  [] OTHER -> iterations[r] = k
         /\ \A i \in 1..Len(trace[r]) :
               trace[r][i].url = ChatUrl =>
                   trace[r][i].body = Some(ModelOf(request[r].body))

(* C15: no state is shared between requests: under every interleaving of   *)
(* concurrent requests a step of one request leaves what every other       *)
(* request holds unchanged (its conversation, its iteration counter, its   *)
(* position and its response), and leaves the request that took it with a  *)
(* conversation that holds its own prompt and the messages of its own      *)
(* iterations, as many assistant messages as it counted iterations.        *)
C15_NoSharedState ==
    [][\E r \in Reqs : /\ \A q \in Reqs \ {r} : Run(q)' = Run(q)
                        /\ OwnRun(r)']_vars

C15_Witness ==
    /\ pc[1] = "executing"
    /\ pc[2] = "chat"
    /\ iterations[1] = 3
    /\ iterations[2] = 2
    /\ Len(messages[1]) = 7
    /\ Len(messages[2]) = 4
    /\ messages[1][2] # messages[2][2]

----------------------------------------------------------------------------
\* the position of the first line break of s, 0 when it has none
RECURSIVE Break(_, _)
Break(s, i) ==
    IF i > Len(s) THEN 0
    ELSE IF SubSeq(s, i, i) = "\n" THEN i
    ELSE Break(s, i + 1)

\* the lines of s
RECURSIVE Lines(_)
Lines(s) ==
    LET b == Break(s, 1)
    IN  IF b = 0 THEN <<s>>
        ELSE <<SubSeq(s, 1, b - 1)>> \o Lines(SubSeq(s, b + 1, Len(s)))

\* t occurs in s
Contains(s, t) == \E i \in 1..(Len(s) + 1 - Len(t)) : SubSeq(s, i, i + Len(t) - 1) = t

\* the latest client call listed the scripts and the platform reported success
Listed == last.op = "list_workers" /\ last.listing.fetch = "ok" /\ last.listing.success

\* the entries the platform reported
Entries == IF IsSome(last.listing.result) THEN Get(last.listing.result) ELSE <<>>

(* C16 as stated: list() returns exactly "No workers found." when the      *)
(* platform successfully reports zero entries, and otherwise one line per  *)
(* entry, in the platform's order, each line containing the entry's id and *)
(* modified timestamp.  Refuted: with entries the listing starts with the  *)
(* line "Workers:", so it has one line more than there are entries.        *)
C16_ListingAsStated ==
    Listed =>
        /\ ~last.out.threw
        /\ IF Len(Entries) = 0 THEN last.out.value = "No workers found."
           ELSE LET lines == Lines(last.out.value)
                IN  /\ Len(lines) = Len(Entries)
                    /\ \A i \in 1..Len(Entries) :
                          /\ Contains(lines[i], Entries[i].id)
                          /\ Contains(lines[i], Entries[i].modified_on)

(* C16, amended: list() returns exactly "No workers found." when the       *)
(* platform successfully reports zero entries (an empty or an absent       *)
(* result), and otherwise the line "Workers:" followed by one line per     *)
(* entry, in the platform's order, the line of an entry being              *)
(* "- {id} (modified: {modified_on})".                                     *)
C16_Listing ==
    Listed =>
        /\ ~last.out.threw
        /\ IF Len(Entries) = 0 THEN last.out.value = "No workers found."
           ELSE LET lines == Lines(last.out.value)
                IN  /\ Len(lines) = Len(Entries) + 1
                    /\ lines[1] = "Workers:"
                    /\ \A i \in 1..Len(Entries) :
                          /\ lines[i + 1] = "- " \o Entries[i].id \o " (modified: "
                                               \o Entries[i].modified_on \o ")"
                          /\ Contains(lines[i + 1], Entries[i].id)
                          /\ Contains(lines[i + 1], Entries[i].modified_on)

C16_Witness ==
    /\ Listed
    /\ Len(Entries) = 2
    /\ Entries[1].id = "other-fn"
    /\ Entries[1].modified_on # Entries[2].modified_on
    /\ Len(Lines(last.out.value)) = 3

----------------------------------------------------------------------------
(* C17: a tool call whose argument string does not parse is not caught by  *)
(* the dispatcher: the run ends there with a 500 response carrying the     *)
(* parse error, nothing left in flight; no tool message is appended for    *)
(* that call; the calls requested before it in the same assistant message  *)
(* have been executed, each with its tool message and its call to the      *)
(* platform; and the calls after it are never executed.                    *)
C17_MalformedArgumentsEndRun ==
    \A r \in Reqs :
        raised[r] = "parse" =>
            LET la == LatestAssistant(r)
                calls == Get(message[r].tool_calls)
                j == toolIndex[r]
            IN  /\ pc[r] = "done"
                /\ j \in 1..Len(calls)
                /\ ~JSONParse(calls[j].arguments).ok
                /\ response[r] = Response(500, Some(ParseErrorMessage), None, None, None)
                /\ inflight[r] = {}
                /\ messages[r][la] = message[r]
                /\ Len(messages[r]) = la + j - 1
                /\ AnswersPrefix(r, la, j - 1)
                /\ \A k \in 1..(j - 1) :
                      Awaits(calls[k]) => \E i \in 1..Len(trace[r]) : trace[r][i].by = k
                /\ \A i \in 1..Len(trace[r]) : trace[r][i].by < j

C17_Witness ==
    \E r \in Reqs :
        /\ raised[r] = "parse"
        /\ toolIndex[r] = 2
        /\ LastMessage(r) = Message("tool", Some("No workers found."), None,
                                    Some(CallOf(r, 1).id))
        /\ response[r].status = 500
        /\ iterations[r] = 2

----------------------------------------------------------------------------
\* the three ways a run ends
EndedInSuccess(r) ==
    /\ response[r].status = 200
    /\ LastMessage(r).role = "assistant"
    /\ NoToolCalls(LastMessage(r))
    /\ response[r].result = Some(ContentOrEmpty(LastMessage(r)))

EndedInExhaustion(r) ==
    /\ response[r].status = 200
    /\ response[r].result = Some("Max iterations reached")
    /\ iterations[r] = maxIterations
    /\ ~(LastMessage(r).role = "assistant" /\ NoToolCalls(LastMessage(r)))

EndedInFailure(r) == response[r].status = 500 /\ IsSome(response[r].error)

Outcomes(r) ==
    {o \in {"success", "exhaustion", "failure"} :
        \/ o = "success" /\ EndedInSuccess(r)
        \/ o = "exhaustion" /\ EndedInExhaustion(r)
        \/ o = "failure" /\ EndedInFailure(r)}

(* C18: every model call and every platform call returning, every agent    *)
(* run eventually ends, and a run that has ended has ended in exactly one  *)
(* of three ways: success (the last message is an assistant message        *)
(* without tool calls), exhaustion ("Max iterations reached" after 20      *)
(* iterations) or failure (a 500 response carrying the uncaught error).    *)
C18_EveryRunEnds ==
    /\ [](\A r \in Reqs :
            (pc[r] = "done" /\ Started(r)) => Cardinality(Outcomes(r)) = 1)
    /\ \A r \in Reqs : Started(r) ~> (pc[r] = "done")

C18_Witness ==
    \E r \in Reqs :
        /\ pc[r] = "done"
        /\ Started(r)
        /\ Outcomes(r) = {"failure"}
        /\ iterations[r] = maxIterations
        /\ raised[r] = "parse"

----------------------------------------------------------------------------
\* the run of r returned the fallback of the iteration cap
HitCap(r) == pc[r] = "done" /\ response[r].result = Some("Max iterations reached")

(* C19: when a run ends on the iteration cap, the tool calls of the 20th   *)
(* assistant message were executed, with their calls to the platform, and  *)
(* their tool messages appended before the run returned: 20 model calls    *)
(* were made, the returned transcript ends with the tool message of the    *)
(* last call, and no model call follows these results.                     *)
C19_LastToolCallsExecuted ==
    \A r \in Reqs :
        HitCap(r) =>
            LET la == LatestAssistant(r)
                calls == CallsAt(r, la)
                t == trace[r]
            IN  /\ iterations[r] = maxIterations
                /\ Cardinality(AssistantIdx(r)) = maxIterations
                /\ messages[r][la] = message[r]
                /\ Len(calls) >= 1
                /\ Len(messages[r]) = la + Len(calls)
                /\ AnswersPrefix(r, la, Len(calls))
                /\ LastMessage(r).role = "tool"
                /\ LastMessage(r).tool_call_id = Some(calls[Len(calls)].id)
                /\ response[r].messages = Some(messages[r])
                /\ Len(t) >= 1 /\ t[1].url = ChatUrl /\ t[1].by = 0
                /\ \A i \in 2..Len(t) : t[i].url # ChatUrl /\ t[i].by \in 1..Len(calls)
                /\ \A k \in 1..Len(calls) :
                      Awaits(calls[k]) => \E i \in 2..Len(t) : t[i].by = k

C19_Witness ==
    \E r \in Reqs :
        /\ HitCap(r)
        /\ Len(trace[r]) = 4
        /\ trace[r][3].op = "PUT"
        /\ trace[r][3].out = "success"
        /\ trace[r][3].by = 2
        /\ LastMessage(r).tool_call_id = Some(CallId(maxIterations, 2))

----------------------------------------------------------------------------
RECURSIVE Requested(_, _)
\* the number of tool calls the messages from position i on request
Requested(r, i) ==
    IF i > Len(messages[r]) THEN 0
    ELSE Len(CallsAt(r, i)) + Requested(r, i + 1)

ToolIdx(r) == {i \in 1..Len(messages[r]) : messages[r][i].role = "tool"}

\* the conversation starts with the system message and the prompt of the request,
\* and goes on with assistant and tool messages only
Shaped(r) ==
    /\ messages[r][1] = Message("system", Some(systemPrompt), None, None)
    /\ messages[r][2] = Message("user", request[r].body.prompt, None, None)
    /\ IsSome(request[r].body.prompt)
    /\ \A i \in 3..Len(messages[r]) : messages[r][i].role \in {"assistant", "tool"}

\* at a successful return the last message is the only assistant message without
\* tool calls, and every tool call requested has its tool message
SettledAtSuccess(r) ==
    (pc[r] = "done" /\ EndedInSuccess(r)) =>
        /\ {i \in AssistantIdx(r) : NoToolCalls(messages[r][i])} = {Len(messages[r])}
        /\ Cardinality(ToolIdx(r)) = Requested(r, 1)

\* the model call of the current iteration has not returned a message: it is in
\* flight, or it failed
AwaitsAnswer(r) ==
    \/ pc[r] = "chat"
    \/ pc[r] = "done" /\ Len(trace[r]) = 1 /\ trace[r][1].out # "200"

\* every conversation is continued, never rewritten
AppendOnly ==
    \A r \in Reqs :
        /\ Len(messages'[r]) >= Len(messages[r])
        /\ SubSeq(messages'[r], 1, Len(messages[r])) = messages[r]

(* C20 as stated, its part on states: in every state of a run the          *)
(* conversation starts with the system message and the user message        *)
(* holding the prompt, every later message is an assistant or a tool       *)
(* message, the number of assistant messages equals the iteration counter, *)
(* and at a successful return the last message is the only assistant       *)
(* message without tool calls and there are as many tool messages as tool  *)
(* calls requested.  Refuted: the counter is incremented before the model  *)
(* is called, so it is one ahead while the call is in flight and after the *)
(* call failed.                                                            *)
C20_ConversationAsStated ==
    \A r \in Reqs :
        Started(r) =>
            /\ Shaped(r)
            /\ Cardinality(AssistantIdx(r)) = iterations[r]
            /\ SettledAtSuccess(r)

(* C20, amended: in every state of a run the conversation is well-formed   *)
(* and append-only: it starts with the system message and the user message *)
(* holding the prompt, every later message is an assistant or a tool       *)
(* message, no step changes or removes a message, the number of assistant  *)
(* messages equals the iteration counter, less one while the model call of *)
(* the current iteration is in flight or after it failed, and at a         *)
(* successful return the last message is the only assistant message        *)
(* without tool calls and there are as many tool messages as tool calls    *)
(* requested.                                                              *)
C20_ConversationWellFormed ==
    /\ [](\A r \in Reqs :
            Started(r) =>
                /\ Shaped(r)
                /\ Cardinality(AssistantIdx(r))
                      = IF AwaitsAnswer(r) THEN iterations[r] - 1 ELSE iterations[r]
                /\ SettledAtSuccess(r))
    /\ [][AppendOnly]_vars

C20_Witness ==
    \E r \in Reqs :
        /\ pc[r] = "done"
        /\ Started(r)
        /\ EndedInSuccess(r)
        /\ iterations[r] = 3
        /\ Cardinality(ToolIdx(r)) = MaxCalls + 1
        /\ Requested(r, 1) = MaxCalls + 1

====
